---------------------------- MODULE Spec2Model ----------------------------
(***************************************************************************)
(* A model of the resume builder: the escaper (latex_escape, escape_all),  *)
(* the visibility filter (filter_for_target), the composer (create_tex),   *)
(* the build orchestrator (render_target, cleanup_aux_files) and the HTTP  *)
(* handlers of app.py (render, download_pdf, render_json_pdf).             *)
(*                                                                         *)
(* Text is a sequence of symbols.  A symbol is a one-character string,     *)
(* except that a run of letters no replacement looks into is one symbol    *)
(* ("textbackslash", "approx", "UNICODEMATH", ...) and a non-ASCII         *)
(* character is written by its name ("APPROX" for U+2248, "ENDASH" ...).   *)
(***************************************************************************)
EXTENDS Integers, Sequences, FiniteSets, TLC

VARIABLES
    text,       \* escaper: the input of latex_escape
    escOut,     \* escaper: <<"none">> before the call, <<"ok", result>> after
    doc,        \* filter: the document tree handed to filter_for_target
    target,     \* filter: the target
    fOut1,      \* filter: <<"none">> or <<"ok", filter_for_target(doc, target)>>
    fOut2,      \* filter: <<"none">> or <<"ok", filter_for_target(fOut1, target)>>
    cInput,     \* composer: yaml_content, <<"malformed">> or <<"yaml", tree>>
    cTarget,    \* composer: target, a target or "None"
    cTemplate,  \* composer: whether templates/ holds template_name
    cPc,        \* composer: where each of two calls of create_tex is
    cData,      \* composer: each call's data / data_to_render / data_escaped
    cOut,       \* composer: each call's result, <<"ok", rendered>> or <<"raise", error>>
    dirs,       \* file system: the directories that exist
    fs,         \* file system: the files that exist, each <<directory, base name, suffix>>
    compiler,   \* host: what invoking pdflatex does in the current call of
                \* render_target ("absent": not on PATH)
    rmFailed,   \* host: the deletions that have failed ("aux", ..., "pdf", "tex", "tree")
    bPc,        \* render_target: where the call is
    bDir,       \* render_target: the directory of out_tex
    bBase,      \* render_target: the base name of out_tex
    bCompose,   \* render_target: how create_tex ends on its yaml_content and target
    bSuffix,    \* render_target: the index of cleanup_aux_files' loop
    bRet,       \* render_target: <<"none">>, <<"path", dir, base, "pdf">> or <<"raise", error>>
    hPc,        \* app.py: where the handler of the current request is
    hReq,       \* app.py: the current request
    hId,        \* app.py: request_id, the name of the request's workdir
    hResp,      \* app.py: the response, <<status, what>>
    hCount,     \* app.py: the number of requests received
    sPdfPath,   \* render_json_pdf: whether pdf_path is set
    sBytes,     \* render_json_pdf: pdf_bytes, "None", "empty" or "bytes"
    sPending,   \* render_json_pdf: the response of a return inside try/except
    sWay        \* render_json_pdf: the way the try block was left

escVars == <<text, escOut>>
filtVars == <<doc, target, fOut1, fOut2>>
compVars == <<cInput, cTarget, cTemplate, cPc, cData, cOut>>
hostVars == <<dirs, fs, compiler, rmFailed>>
buildVars == <<bPc, bDir, bBase, bCompose, bSuffix, bRet>>
pureVars == <<escVars, filtVars, compVars>>
handlerVars == <<hPc, hReq, hId, hResp, hCount, sPdfPath, sBytes, sPending, sWay>>
vars == <<escVars, filtVars, compVars, hostVars, buildVars, handlerVars>>

---------------------------------------------------------------------------
(* Bounds *)

\* longest input text of the escaper specification
MaxTextLen == 3
\* number of hex digits of a placeholder's uuid (32 in the program)
HexLen == 1
\* longest sequence node of a generated document
MaxSeqLen == 2
\* longest name text of a document handed to the composer
MaxNameLen == 2
\* number of requests the two-step handlers receive
MaxRequests == 2
\* number of requests the streaming handler receives
MaxStreamRequests == 1

---------------------------------------------------------------------------
(* Escaper: render_tex.py latex_escape *)

BS == "\\"

\* str.replace(pat, rep): every non-overlapping occurrence, left to right
RECURSIVE Replace(_, _, _)
Replace(s, pat, rep) ==
    IF Len(s) < Len(pat) \/ Len(pat) = 0 THEN s
    ELSE IF SubSeq(s, 1, Len(pat)) = pat
         THEN rep \o Replace(SubSeq(s, Len(pat) + 1, Len(s)), pat, rep)
         ELSE <<Head(s)>> \o Replace(Tail(s), pat, rep)

\* `pat in text`
RECURSIVE Contains(_, _)
Contains(s, pat) ==
    IF Len(s) < Len(pat) THEN FALSE
    ELSE IF SubSeq(s, 1, Len(pat)) = pat THEN TRUE
    ELSE Contains(Tail(s), pat)

unicode_math_replacements ==
    << <<"APPROX",   <<"$", BS, "approx", "$">> >>,
       <<"PLUSMINUS", <<"$", BS, "pm", "$">> >>,
       <<"TIMES",    <<"$", BS, "times", "$">> >>,
       <<"DIVIDE",   <<"$", BS, "div", "$">> >>,
       <<"LEQ",      <<"$", BS, "leq", "$">> >>,
       <<"GEQ",      <<"$", BS, "geq", "$">> >>,
       <<"NEQ",      <<"$", BS, "neq", "$">> >>,
       <<"INFINITY", <<"$", BS, "infty", "$">> >>,
       <<"SUM",      <<"$", BS, "sum", "$">> >>,
       <<"PROD",     <<"$", BS, "prod", "$">> >>,
       <<"SQRT",     <<"$", BS, "sqrt", "{", "}", "$">> >>,
       <<"DEGREE",   <<"$", "^", BS, "circ", "$">> >> >>

typography_replacements ==
    << <<"ENDASH",   <<"-", "-">> >>,
       <<"EMDASH",   <<"-", "-", "-">> >>,
       <<"LDQUOTE",  <<"`", "`">> >>,
       <<"RDQUOTE",  <<"'", "'">> >>,
       <<"LSQUOTE",  <<"`">> >>,
       <<"RSQUOTE",  <<"'">> >>,
       <<"ELLIPSIS", <<".", ".", ".">> >> >>

latex_special ==
    << <<BS,  <<BS, "textbackslash", "{", "}">> >>,
       <<"&", <<BS, "&">> >>,
       <<"%", <<BS, "%">> >>,
       <<"$", <<BS, "$">> >>,
       <<"#", <<BS, "#">> >>,
       <<"_", <<BS, "_">> >>,
       <<"{", <<BS, "{">> >>,
       <<"}", <<BS, "}">> >>,
       <<"~", <<BS, "textasciitilde", "{", "}">> >>,
       <<"^", <<BS, "textasciicircum", "{", "}">> >> >>

\* for char, replacement in table: text = text.replace(char, replacement)
RECURSIVE ApplyTable(_, _)
ApplyTable(s, table) ==
    IF table = <<>> THEN s
    ELSE ApplyTable(Replace(s, <<Head(table)[1]>>, Head(table)[2]), Tail(table))

\* a plausible slip: a placeholder with an underscore in it, which the
\* escaping of "_" breaks before the placeholder is restored
PlaceholderWithUnderscore(hex) == <<"UNICODE", "_", "MATH">> \o hex

\* f"UNICODEMATH{uuid.uuid4().hex}"
Placeholder(hex) == <<"UNICODEMATH">> \o hex

\* placeholders[placeholder] = latex_code: a dict keeps a key's first place
\* and its last value
DictPut(d, k, v) ==
    IF \E i \in 1..Len(d) : d[i][1] = k
    THEN [i \in 1..Len(d) |-> IF d[i][1] = k THEN <<k, v>> ELSE d[i]]
    ELSE Append(d, <<k, v>>)

\* The first loop of latex_escape, from entry i of unicode_math_replacements
\* on: <<text, placeholders>>.  draws[i] is the hex of the uuid drawn for
\* entry i, read only when the entry's character is in the text.
RECURSIVE MathToPlaceholders(_, _, _, _)
MathToPlaceholders(s, ph, i, draws) ==
    IF i > Len(unicode_math_replacements) THEN <<s, ph>>
    ELSE LET char == unicode_math_replacements[i][1]
             code == unicode_math_replacements[i][2]
         IN IF Contains(s, <<char>>)
            THEN MathToPlaceholders(Replace(s, <<char>>, Placeholder(draws[i])),
                                    DictPut(ph, Placeholder(draws[i]), code),
                                    i + 1, draws)
            ELSE MathToPlaceholders(s, ph, i + 1, draws)

\* for placeholder, latex_code in placeholders.items(): text.replace(...)
RECURSIVE RestorePlaceholders(_, _)
RestorePlaceholders(s, ph) ==
    IF ph = <<>> THEN s
    ELSE RestorePlaceholders(Replace(s, Head(ph)[1], Head(ph)[2]), Tail(ph))

latex_escape(s, draws) ==
    LET m == MathToPlaceholders(s, <<>>, 1, draws)
        t == ApplyTable(m[1], typography_replacements)
        e == ApplyTable(t, latex_special)
    IN RestorePlaceholders(e, m[2])

\* the entries of unicode_math_replacements whose character is in s when the
\* loop reaches them: the ones a uuid is drawn for
MathPresent(s) ==
    {i \in 1..Len(unicode_math_replacements) :
        Contains(s, <<unicode_math_replacements[i][1]>>)}

\* the concatenation of a sequence of sequences
RECURSIVE Concat(_)
Concat(ss) == IF ss = <<>> THEN <<>> ELSE Head(ss) \o Concat(Tail(ss))

HexDigits == {"0", "c"}
RECURSIVE SeqsOfLen(_, _)
SeqsOfLen(S, n) ==
    IF n = 0 THEN {<<>>}
    ELSE {<<x>> \o r : x \in S, r \in SeqsOfLen(S, n - 1)}
RECURSIVE SeqsUpTo(_, _)
SeqsUpTo(S, n) ==
    IF n = 0 THEN {<<>>} ELSE SeqsOfLen(S, n) \cup SeqsUpTo(S, n - 1)

\* uuid.uuid4().hex
Uuid4Hex == SeqsOfLen(HexDigits, HexLen)

\* uuid4 draws 122 random bits: a token is taken to differ from every other
\* token of the call and not to occur in the text it is put into
FreshDraws(s, draws) ==
    /\ \A i, j \in DOMAIN draws : i /= j => draws[i] /= draws[j]
    /\ \A i \in DOMAIN draws : ~Contains(s, Placeholder(draws[i]))

DrawsFor(s) == {d \in [MathPresent(s) -> Uuid4Hex] : FreshDraws(s, d)}

---------------------------------------------------------------------------
(* Document trees (yaml.safe_load's result): every node is a record of the *)
(* same four fields.  Python's None is both the null scalar and the value  *)
(* filter_for_target returns for a dropped node.  val is a scalar's value  *)
(* as text (a tag such as "cv" is one symbol).                             *)

Node(kind, val, keys, items) ==
    [kind |-> kind, val |-> val, keys |-> keys, items |-> items]
Null == Node("null", <<>>, <<>>, <<>>)
Str(s) == Node("str", s, <<>>, <<>>)
Num(n) == Node("num", n, <<>>, <<>>)
Bool(b) == Node("bool", b, <<>>, <<>>)
\* a list
SeqN(items) == Node("seq", <<>>, <<>>, items)
\* a dict: keys[i] maps to items[i], in insertion order
MapN(keys, items) == Node("map", <<>>, keys, items)

HasKey(m, k) == \E i \in 1..Len(m.keys) : m.keys[i] = k
Get(m, k) == m.items[CHOOSE i \in 1..Len(m.keys) : m.keys[i] = k]

\* Python truthiness of a loaded YAML value
Truthy(n) ==
    CASE n.kind = "null" -> FALSE
      [] n.kind = "str" -> n.val /= <<>>
      [] n.kind = "num" -> n.val /= <<"0">>
      [] n.kind = "bool" -> n.val = <<"true">>
      [] n.kind = "seq" -> n.items /= <<>>
      [] n.kind = "map" -> n.keys /= <<>>

---------------------------------------------------------------------------
(* Visibility filter: render_tex.py filter_for_target *)

\* show = obj.get("show_on") or []; if isinstance(show, str): show = [show];
\* then `target not in show` (a list's elements, a dict's keys)
TargetInShow(t, show) ==
    IF ~Truthy(show) THEN FALSE
    ELSE CASE show.kind = "str" -> show.val = <<t>>
           [] show.kind = "seq" -> \E i \in 1..Len(show.items) : show.items[i] = Str(<<t>>)
           [] show.kind = "map" -> \E i \in 1..Len(show.keys) : show.keys[i] = t

\* a plausible slip: obj.get("show_on", []) without the `"show_on" in obj`
\* guard, which drops every untagged map
DroppedByShowOnNoGuard(obj, t) ==
    IF HasKey(obj, "show_on") THEN ~TargetInShow(t, Get(obj, "show_on")) ELSE TRUE

\* a plausible slip: the sense of the test inverted (`target in show`)
DroppedByShowOnInverted(obj, t) ==
    HasKey(obj, "show_on") /\ TargetInShow(t, Get(obj, "show_on"))

\* if "show_on" in obj: ... if target not in show: return None
DroppedByShowOn(obj, t) ==
    HasKey(obj, "show_on") /\ ~TargetInShow(t, Get(obj, "show_on"))

RECURSIVE filter_for_target(_, _)
RECURSIVE FilterDictItems(_, _, _)
RECURSIVE FilterListItems(_, _)

\* the dict branch's loop from entry i on: the (keys, items) of `result`
FilterDictItems(obj, i, t) ==
    IF i > Len(obj.keys) THEN <<<<>>, <<>>>>
    ELSE LET rest == FilterDictItems(obj, i + 1, t)
         IN IF obj.keys[i] = "show_on" THEN rest
            ELSE LET filtered == filter_for_target(obj.items[i], t)
                 IN IF filtered /= Null
                    THEN << <<obj.keys[i]>> \o rest[1], <<filtered>> \o rest[2] >>
                    ELSE rest

\* the list branch's loop: `out`
FilterListItems(items, t) ==
    IF items = <<>> THEN <<>>
    ELSE LET f == filter_for_target(Head(items), t)
         IN IF f /= Null THEN <<f>> \o FilterListItems(Tail(items), t)
            ELSE FilterListItems(Tail(items), t)

filter_for_target(obj, t) ==
    IF obj.kind = "map"
    THEN IF DroppedByShowOn(obj, t) THEN Null
         ELSE LET r == FilterDictItems(obj, 1, t) IN MapN(r[1], r[2])
    ELSE IF obj.kind = "seq" THEN SeqN(FilterListItems(obj.items, t))
    ELSE obj

---------------------------------------------------------------------------
(* render_tex.py escape_all *)

\* the texts of the strings of a tree, in the order escape_all reaches them
RECURSIVE StrLeaves(_)
StrLeaves(n) ==
    IF n.kind = "str" THEN <<n.val>>
    ELSE IF n.kind \in {"map", "seq"}
    THEN Concat([i \in 1..Len(n.items) |-> StrLeaves(n.items[i])])
    ELSE <<>>

\* escape_all from the k-th string on: <<tree, index of the next string>>;
\* draws[k] are the uuids latex_escape draws for the k-th string
RECURSIVE EscapeFrom(_, _, _)
RECURSIVE EscapeItems(_, _, _)
EscapeItems(items, k, draws) ==
    IF items = <<>> THEN <<<<>>, k>>
    ELSE LET h == EscapeFrom(Head(items), k, draws)
             r == EscapeItems(Tail(items), h[2], draws)
         IN << <<h[1]>> \o r[1], r[2] >>
EscapeFrom(data, k, draws) ==
    IF data.kind \in {"map", "seq"}
    THEN LET r == EscapeItems(data.items, k, draws)
         IN <<[data EXCEPT !.items = r[1]], r[2]>>
    ELSE IF data.kind = "str"
    THEN <<[data EXCEPT !.val = latex_escape(data.val, draws[k])], k + 1>>
    ELSE <<data, k>>

escape_all(data, draws) == EscapeFrom(data, 1, draws)[1]

\* the uuids one call of escape_all may draw, string by string
RECURSIVE DrawSeqs(_)
DrawSeqs(texts) ==
    IF texts = <<>> THEN {<<>>}
    ELSE {<<d>> \o r : d \in DrawsFor(Head(texts)), r \in DrawSeqs(Tail(texts))}

---------------------------------------------------------------------------
(* The documents the filter is applied to *)

Targets == {"cv", "resume"}

NoEntry == << <<>>, <<>> >>
Entry(k, v) == << <<k>>, <<v>> >>
\* a map of the entries of the fragments a, b, c, in this order
MapOf(a, b, c) == MapN(a[1] \o b[1] \o c[1], a[2] \o b[2] \o c[2])

\* show_on: one tag or a list of tags
ShowOnValues ==
    {Str(<<"cv">>), SeqN(<<Str(<<"resume">>)>>),
     SeqN(<<Str(<<"cv">>), Str(<<"resume">>)>>), SeqN(<<>>)}
ShowOnEntries == {NoEntry} \cup {Entry("show_on", v) : v \in ShowOnValues}

Scalars == {Null, Str(<<"a">>), Num(<<"0">>), Bool(<<"true">>)}

\* an entry of a list of sections: a map with an optional show_on and title
ItemMaps ==
    {MapOf(so, ti, NoEntry) :
        so \in ShowOnEntries,
        ti \in {NoEntry, Entry("title", Str(<<"a">>)), Entry("title", Str(<<"b">>))}}

Sections == {SeqN(s) : s \in SeqsUpTo(ItemMaps \cup Scalars, MaxSeqLen)}

\* the root: a map with an optional show_on, a name and the sections
RootMaps ==
    {MapOf(so, Entry("name", nm), Entry("sections", se)) :
        so \in {NoEntry, Entry("show_on", Str(<<"resume">>)),
               Entry("show_on", SeqN(<<Str(<<"cv">>)>>))},
        nm \in {Null, Str(<<"a">>)},
        se \in Sections}

FilterDocs == RootMaps \cup Sections \cup ItemMaps \cup Scalars

---------------------------------------------------------------------------
(* Specification of the filter: filter_for_target applied to a document,   *)
(* and applied again to its own result                                     *)

IdleEsc == text = <<>> /\ escOut = <<"idle">>
IdleFilter ==
    doc = Null /\ target = "cv" /\ fOut1 = <<"idle">> /\ fOut2 = <<"idle">>

Runs == {1, 2}
IdleComp ==
    /\ cInput = <<"idle">> /\ cTarget = "None" /\ cTemplate = TRUE
    /\ cPc = [r \in Runs |-> "idle"]
    /\ cData = [r \in Runs |-> Null]
    /\ cOut = [r \in Runs |-> <<"none">>]

IdleHost == dirs = {} /\ fs = {} /\ compiler = "absent" /\ rmFailed = {}
IdleBuild ==
    /\ bPc = "idle" /\ bDir = "" /\ bBase = "" /\ bCompose = "ok"
    /\ bSuffix = 1 /\ bRet = <<"none">>

Req(op, doc_type, content, id) ==
    [op |-> op, doc_type |-> doc_type, content |-> content, id |-> id]
NoReq == Req("none", "", "", "")
NoResp == <<0, "none">>
IdleHandler ==
    /\ hPc = "idle" /\ hReq = NoReq /\ hId = "" /\ hResp = NoResp /\ hCount = 0
    /\ sPdfPath = FALSE /\ sBytes = "None" /\ sPending = NoResp /\ sWay = "none"

InitFilter ==
    /\ doc \in FilterDocs
    /\ target \in Targets
    /\ fOut1 = <<"none">>
    /\ fOut2 = <<"none">>
    /\ IdleEsc /\ IdleComp /\ IdleHost /\ IdleBuild /\ IdleHandler

ApplyFilter ==
    /\ fOut1 = <<"none">>
    /\ fOut1' = <<"ok", filter_for_target(doc, target)>>
    /\ UNCHANGED <<doc, target, fOut2, escVars, compVars, hostVars, buildVars, handlerVars>>

ReapplyFilter ==
    /\ fOut1[1] = "ok"
    /\ fOut2 = <<"none">>
    /\ fOut2' = <<"ok", filter_for_target(fOut1[2], target)>>
    /\ UNCHANGED <<doc, target, fOut1, escVars, compVars, hostVars, buildVars, handlerVars>>

NextFilter == ApplyFilter \/ ReapplyFilter

SpecFilter == InitFilter /\ [][NextFilter]_vars

---------------------------------------------------------------------------
(* What the specification says of a document, written without the filter   *)

\* a tag's text as a tag: its one symbol
TagSymbol(v) == IF Len(v) = 1 THEN v[1] ELSE "?"
\* the tags of a map's show_on: the one tag, or the tags of the list
TagsOf(m) ==
    LET so == Get(m, "show_on")
    IN IF so.kind = "str" THEN {TagSymbol(so.val)}
       ELSE IF so.kind = "seq" THEN {TagSymbol(so.items[i].val) : i \in 1..Len(so.items)}
       ELSE {}
\* the map is tagged, and not for target t
Excluded(m, t) == m.kind = "map" /\ HasKey(m, "show_on") /\ t \notin TagsOf(m)

\* what tells one map node from another: its text fields
Marker(m) ==
    LET idx == {i \in 1..Len(m.keys) : m.keys[i] /= "show_on" /\ m.items[i].kind = "str"}
    IN {<<m.keys[i], m.items[i].val>> : i \in idx}

\* The map nodes of n in document order, each by its marker: with `prune`,
\* those only that are not excluded for t and have no excluded ancestor;
\* the value of a show_on field is no part of the document.
RECURSIVE MapNodes(_, _, _)
MapNodes(n, t, prune) ==
    IF n.kind = "map"
    THEN IF prune /\ Excluded(n, t) THEN <<>>
         ELSE <<Marker(n)>> \o
              Concat([i \in 1..Len(n.keys) |->
                        IF n.keys[i] = "show_on" THEN <<>>
                        ELSE MapNodes(n.items[i], t, prune)])
    ELSE IF n.kind = "seq"
    THEN Concat([i \in 1..Len(n.items) |-> MapNodes(n.items[i], t, prune)])
    ELSE <<>>

\* some map of n has a show_on key
RECURSIVE HasShowOn(_)
HasShowOn(n) ==
    \/ n.kind = "map" /\ HasKey(n, "show_on")
    \/ n.kind \in {"map", "seq"} /\ \E i \in 1..Len(n.items) : HasShowOn(n.items[i])

\* The scalars and the sequences of n in document order, each with the key
\* it is at ("-" in a sequence, "/" at the root): with `prune`, those only
\* with no excluded map above them.  A sequence is listed as "seq", so an
\* emptied sequence still counts as present.
RECURSIVE Leaves(_, _, _, _)
Leaves(n, at, t, prune) ==
    IF n.kind = "map"
    THEN IF prune /\ Excluded(n, t) THEN <<>>
         ELSE Concat([i \in 1..Len(n.keys) |->
                        IF n.keys[i] = "show_on" THEN <<>>
                        ELSE Leaves(n.items[i], n.keys[i], t, prune)])
    ELSE IF n.kind = "seq"
    THEN << <<at, "seq", <<>>>> >> \o
         Concat([i \in 1..Len(n.items) |-> Leaves(n.items[i], "-", t, prune)])
    ELSE << <<at, n.kind, n.val>> >>

Filtered == fOut1[1] = "ok"
Refiltered == fOut2[1] = "ok"

(* C2: filter_for_target is idempotent: applied to its own result for the  *)
(* same target, it returns that result unchanged.                          *)
C2_FilterIdempotent == Refiltered => fOut2[2] = fOut1[2]

\* the second application has run on a result the first one pruned
C2_Witness ==
    /\ Refiltered
    /\ doc.kind = "map" /\ fOut1[2].kind = "map"
    /\ HasKey(doc, "sections")
    /\ HasShowOn(doc)
    /\ fOut1[2] /= doc
    /\ \E i \in 1..Len(Get(doc, "sections").items) :
          Excluded(Get(doc, "sections").items[i], target)

(* C3: a map node whose show_on does not contain the target is missing     *)
(* from the result with its whole subtree; every other map node is present *)
(* when its ancestors are, and no map of the result has a show_on key.     *)
C3_ShowOnDecidesPresence ==
    Filtered =>
        /\ MapNodes(fOut1[2], target, FALSE) = MapNodes(doc, target, TRUE)
        /\ ~HasShowOn(fOut1[2])
        /\ doc.kind = "map" => (fOut1[2] = Null <=> Excluded(doc, target))

\* target cv: a section tagged [resume] is gone, an untagged one is there
C3_Witness ==
    /\ Filtered /\ target = "cv"
    /\ doc.kind = "map" /\ HasKey(doc, "sections")
    /\ Get(doc, "sections").items =
          << MapOf(Entry("show_on", SeqN(<<Str(<<"resume">>)>>)),
                   Entry("title", Str(<<"a">>)), NoEntry),
             MapOf(NoEntry, Entry("title", Str(<<"b">>)), NoEntry) >>
    /\ fOut1[2].kind = "map"
    /\ Get(fOut1[2], "sections").items = << MapOf(NoEntry, Entry("title", Str(<<"b">>)), NoEntry) >>

(* C4: only maps whose show_on excludes the target are removed: every      *)
(* scalar (null included) and every sequence under visible ancestors is    *)
(* in the result, unchanged, at its key and in its order.                  *)
C4_ScalarsPassThrough ==
    Filtered /\ ~Excluded(doc, target) =>
        Leaves(fOut1[2], "/", target, FALSE) = Leaves(doc, "/", target, TRUE)

---------------------------------------------------------------------------
(* Specification of the escaper: latex_escape applied to a text *)

Reserved == {BS, "&", "%", "$", "#", "_", "{", "}", "~", "^"}
\* an ordinary character, two math symbols, a typographic character, and
\* the material of a placeholder
EscAlphabet == Reserved \cup {"a", "APPROX", "DEGREE", "ENDASH", "UNICODEMATH", "0"}
EscTexts == SeqsUpTo(EscAlphabet, MaxTextLen)

InitEscaper ==
    /\ text \in EscTexts
    /\ escOut = <<"none">>
    /\ IdleFilter /\ IdleComp /\ IdleHost /\ IdleBuild /\ IdleHandler

Escape ==
    /\ escOut = <<"none">>
    /\ \E d \in DrawsFor(text) : escOut' = <<"ok", latex_escape(text, d)>>
    /\ UNCHANGED <<text, filtVars, compVars, hostVars, buildVars, handlerVars>>

NextEscaper == Escape

SpecEscaper == InitEscaper /\ [][NextEscaper]_vars

\* the escape sequence latex_special designates for a reserved character
Designated(c) ==
    latex_special[CHOOSE i \in 1..Len(latex_special) : latex_special[i][1] = c][2]
\* the character-by-character substitution of a text
CharByChar(s) ==
    Concat([i \in 1..Len(s) |-> IF s[i] \in Reserved THEN Designated(s[i]) ELSE <<s[i]>>])

Escaped == escOut[1] = "ok"
\* the text has reserved and ordinary characters only
PlainOrReserved(s) == \A i \in 1..Len(s) : s[i] \in Reserved \cup {"a", "0"}

(* C1: latex_escape replaces each reserved character by its designated     *)
(* escape sequence and leaves the others alone: the result is the          *)
(* character-by-character substitution of the input, and nothing a         *)
(* substitution step puts in is altered by a later step.                   *)
C1_EscapeIsCharByChar ==
    Escaped /\ PlainOrReserved(text) => escOut[2] = CharByChar(text)

---------------------------------------------------------------------------
(* Composer: render_tex.py create_tex, called twice on the same input *)

\* the template of the model prints every text of its bindings, in order;
\* tmpl.render(**data_escaped) raises for bindings that are no map
Render(bindings) == Concat(StrLeaves(bindings))

CompNames == SeqsUpTo({"_", "APPROX", "DEGREE"}, MaxNameLen)
CompItems ==
    {MapOf(so, Entry("title", Str(ti)), NoEntry) :
        so \in {NoEntry, Entry("show_on", Str(<<"resume">>))},
        ti \in {<<"SQRT">>, <<"&">>}}
CompDocs ==
    {MapOf(so, Entry("name", Str(nm)), Entry("sections", SeqN(se))) :
        so \in {NoEntry, Entry("show_on", Str(<<"resume">>)),
                Entry("show_on", SeqN(<<Str(<<"cv">>)>>))},
        nm \in CompNames,
        se \in SeqsUpTo(CompItems, 1)}
    \cup {Null, Str(<<"a">>), SeqN(<<Str(<<"a">>)>>), MapN(<<>>, <<>>)}

InitComposer ==
    /\ cInput \in {<<"malformed">>} \cup {<<"yaml", d>> : d \in CompDocs}
    /\ cTarget \in Targets \cup {"None"}
    /\ cTemplate \in BOOLEAN
    /\ cPc = [r \in Runs |-> "get_template"]
    /\ cData = [r \in Runs |-> Null]
    /\ cOut = [r \in Runs |-> <<"none">>]
    /\ IdleEsc /\ IdleFilter /\ IdleHost /\ IdleBuild /\ IdleHandler

\* create_tex is synchronous: the second call starts when the first has ended
CtTurn(r) == r = 1 \/ cPc[1] \in {"done", "raised"}

\* the call ends raising error e
CtRaise(r, e) ==
    /\ cPc' = [cPc EXCEPT ![r] = "raised"]
    /\ cOut' = [cOut EXCEPT ![r] = <<"raise", e>>]
    /\ UNCHANGED cData

\* tmpl = env.get_template(template_name)
CtGetTemplate(r) ==
    /\ CtTurn(r)
    /\ cPc[r] = "get_template"
    /\ IF cTemplate
       THEN cPc' = [cPc EXCEPT ![r] = "parse"] /\ UNCHANGED <<cData, cOut>>
       ELSE CtRaise(r, "TemplateNotFound")
    /\ UNCHANGED <<cInput, cTarget, cTemplate, escVars, filtVars, hostVars, buildVars, handlerVars>>

\* data = yaml.safe_load(yaml_content) or {}
CtParse(r) ==
    /\ CtTurn(r)
    /\ cPc[r] = "parse"
    /\ IF cInput[1] = "malformed"
       THEN CtRaise(r, "ValueError")
       ELSE /\ cData' = [cData EXCEPT ![r] =
                          IF Truthy(cInput[2]) THEN cInput[2] ELSE MapN(<<>>, <<>>)]
            /\ cPc' = [cPc EXCEPT ![r] = "filter"]
            /\ UNCHANGED cOut
    /\ UNCHANGED <<cInput, cTarget, cTemplate, escVars, filtVars, hostVars, buildVars, handlerVars>>

\* if target: data_to_render = filter_for_target(data, target)
CtFilter(r) ==
    /\ CtTurn(r)
    /\ cPc[r] = "filter"
    /\ cData' = [cData EXCEPT ![r] =
                   IF cTarget /= "None" THEN filter_for_target(cData[r], cTarget)
                   ELSE cData[r]]
    /\ cPc' = [cPc EXCEPT ![r] = "escape"]
    /\ UNCHANGED <<cOut, cInput, cTarget, cTemplate, escVars, filtVars, hostVars, buildVars, handlerVars>>

\* data_to_render or {}
OrEmpty(data) == IF Truthy(data) THEN data ELSE MapN(<<>>, <<>>)

\* data_escaped = escape_all(data_to_render or {})
CtEscape(r) ==
    /\ CtTurn(r)
    /\ cPc[r] = "escape"
    /\ \E draws \in DrawSeqs(StrLeaves(OrEmpty(cData[r]))) :
          cData' = [cData EXCEPT ![r] = escape_all(OrEmpty(cData[r]), draws)]
    /\ cPc' = [cPc EXCEPT ![r] = "render"]
    /\ UNCHANGED <<cOut, cInput, cTarget, cTemplate, escVars, filtVars, hostVars, buildVars, handlerVars>>

\* rendered = tmpl.render(**data_escaped); return rendered
CtRender(r) ==
    /\ CtTurn(r)
    /\ cPc[r] = "render"
    /\ IF cData[r].kind = "map"
       THEN /\ cOut' = [cOut EXCEPT ![r] = <<"ok", Render(cData[r])>>]
            /\ cPc' = [cPc EXCEPT ![r] = "done"]
            /\ UNCHANGED cData
       ELSE CtRaise(r, "RuntimeError")
    /\ UNCHANGED <<cInput, cTarget, cTemplate, escVars, filtVars, hostVars, buildVars, handlerVars>>

NextComposer ==
    \E r \in Runs :
        CtGetTemplate(r) \/ CtParse(r) \/ CtFilter(r) \/ CtEscape(r) \/ CtRender(r)

SpecComposer == InitComposer /\ [][NextComposer]_vars

\* the root is a map
RootIsMap == cInput[1] = "yaml" /\ cInput[2].kind = "map"
\* the root without its own show_on entry
WithoutShowOn(m) ==
    LET idx == SelectSeq([i \in 1..Len(m.keys) |-> i], LAMBDA i : m.keys[i] /= "show_on")
    IN MapN([j \in 1..Len(idx) |-> m.keys[idx[j]]], [j \in 1..Len(idx) |-> m.items[idx[j]]])
\* the root's fields as the filter leaves them when the root itself stays
VisibleFields(m, t) == filter_for_target(WithoutShowOn(m), t)
\* escape_all's result for some draw of the uuids
EscapedWithSomeDraws(data) ==
    escape_all(data, CHOOSE draws \in DrawSeqs(StrLeaves(data)) : TRUE)

(* C5: the root is never dropped: for every root map and every target,     *)
(* also when the root's show_on does not contain the target, the bindings  *)
(* create_tex hands to the template are the root's visible fields,         *)
(* filtered and escaped.                                                   *)
C5_RootNeverDropped ==
    \A r \in Runs :
        cPc[r] \in {"render", "done"} /\ RootIsMap /\ cTarget \in Targets =>
            cData[r] = EscapedWithSomeDraws(VisibleFields(cInput[2], cTarget))

(* C10: create_tex is deterministic: two calls on the same document,       *)
(* template and target end alike, with identical rendered text, whatever   *)
(* uuids latex_escape draws in each, and no placeholder is left in the     *)
(* text.                                                                   *)
C10_ComposeDeterministic ==
    /\ (\A r \in Runs : cPc[r] \in {"done", "raised"}) => cOut[1] = cOut[2]
    /\ \A r \in Runs : cPc[r] = "done" => ~Contains(cOut[r][2], <<"UNICODEMATH">>)

\* both calls have rendered a document with two math symbols in one text
C10_Witness ==
    /\ \A r \in Runs : cPc[r] = "done"
    /\ RootIsMap /\ HasKey(cInput[2], "name")
    /\ Get(cInput[2], "name").val = <<"APPROX", "DEGREE">>
    /\ cOut[1][2] = <<"$", BS, "approx", "$", "$", "^", BS, "circ", "$">>

---------------------------------------------------------------------------
(* Build orchestrator: render_tex.py render_target and cleanup_aux_files *)

\* how create_tex ends: with the rendered text, or raising
ComposeOutcomes == {"ok", "ValueError", "RuntimeError", "TemplateNotFound"}
\* what invoking the compiler does: not on PATH; exit status zero; non-zero
\* (CalledProcessError); any other failure of subprocess.run
CompilerOutcomes == {"absent", "exit_zero", "exit_nonzero", "fails"}

AuxSuffixes == <<"aux", "log", "out">>
Byproducts == {"aux", "log", "out"}
File(d, b, x) == <<d, b, x>>
Exists(d, b, x) == File(d, b, x) \in fs

\* p.unlink(): the file is gone, or the deletion fails and the caller's
\* except clause notes it (what: the step that failed)
Unlink(f, what) ==
    \/ fs' = fs \ {f} /\ UNCHANGED rmFailed
    \/ rmFailed' = rmFailed \cup {what} /\ UNCHANGED fs

\* the call render_target(template, dir/base.tex, yaml_content, target)
BtCall(d, b, outcome) ==
    /\ bPc' = "compose" /\ bDir' = d /\ bBase' = b /\ bCompose' = outcome
    /\ bSuffix' = 1 /\ bRet' = <<"none">>

BtRaise(e) ==
    /\ bPc' = "raised" /\ bRet' = <<"raise", e>>
    /\ UNCHANGED <<bDir, bBase, bCompose, bSuffix>>

\* output = create_tex(...)
BtCompose ==
    /\ bPc = "compose"
    /\ IF bCompose = "ok"
       THEN bPc' = "write" /\ UNCHANGED <<bDir, bBase, bCompose, bSuffix, bRet>>
       ELSE BtRaise(bCompose)
    /\ UNCHANGED hostVars
    /\ UNCHANGED <<pureVars, handlerVars>>

\* out_dir.mkdir(parents=True, exist_ok=True); the .tex file is written
BtWrite ==
    /\ bPc = "write"
    /\ dirs' = dirs \cup {bDir}
    /\ fs' = fs \cup {File(bDir, bBase, "tex")}
    /\ bPc' = "compile"
    /\ UNCHANGED <<compiler, rmFailed, bDir, bBase, bCompose, bSuffix, bRet>>
    /\ UNCHANGED <<pureVars, handlerVars>>

\* a plausible slip: no except clause, a non-zero exit propagates
CaughtByRenderTargetNothing(outcome) == FALSE

\* except subprocess.CalledProcessError: the one failure render_target catches
CaughtByRenderTarget(outcome) == outcome = "exit_nonzero"

\* what a compiler that ran may leave: the PDF (always, when it exits zero)
\* and any of the byproducts
Emitted(outcome) ==
    {S \in SUBSET {"pdf", "aux", "log", "out"} : outcome = "exit_zero" => "pdf" \in S}

\* if shutil.which("pdflatex"): subprocess.run([...], check=True, cwd=out_dir)
BtCompile ==
    /\ bPc = "compile"
    /\ IF compiler = "absent"
       THEN /\ bPc' = "cleanup"
            /\ UNCHANGED <<fs, bRet>>
       ELSE /\ \E S \in Emitted(compiler) :
                  fs' = fs \cup {File(bDir, bBase, x) : x \in S}
            /\ IF compiler = "exit_zero" \/ CaughtByRenderTarget(compiler)
               THEN bPc' = "cleanup" /\ UNCHANGED bRet
               ELSE bPc' = "raised" /\ bRet' = <<"raise", "CompilerFailure">>
    /\ UNCHANGED <<dirs, compiler, rmFailed, bDir, bBase, bCompose, bSuffix>>
    /\ UNCHANGED <<pureVars, handlerVars>>

\* cleanup_aux_files: for suffix in (".aux", ".log", ".out"):
\*     if p.exists(): p.unlink()   -- a failure is printed, not raised
BtCleanup ==
    /\ bPc = "cleanup"
    /\ bSuffix <= Len(AuxSuffixes)
    /\ IF Exists(bDir, bBase, AuxSuffixes[bSuffix])
       THEN Unlink(File(bDir, bBase, AuxSuffixes[bSuffix]), AuxSuffixes[bSuffix])
       ELSE UNCHANGED <<fs, rmFailed>>
    /\ bSuffix' = bSuffix + 1
    /\ UNCHANGED <<dirs, compiler, bPc, bDir, bBase, bCompose, bRet>>
    /\ UNCHANGED <<pureVars, handlerVars>>

\* what the orchestrator's contract asks for: the path if the PDF exists,
\* else a sentinel
PdfPathIfThere(d, b, there) == IF there THEN <<"path", d, b, "pdf">> ELSE <<"not_produced">>

\* src_pdf = out_tex_path.with_suffix(".pdf"); ...; return src_pdf:
\* the path of the PDF, whether or not the file exists
ReturnValue(d, b, there) == <<"path", d, b, "pdf">>

BtReturn ==
    /\ bPc = "cleanup"
    /\ bSuffix > Len(AuxSuffixes)
    /\ bPc' = "returned"
    /\ bRet' = ReturnValue(bDir, bBase, Exists(bDir, bBase, "pdf"))
    /\ UNCHANGED <<hostVars, bDir, bBase, bCompose, bSuffix>>
    /\ UNCHANGED <<pureVars, handlerVars>>

\* control has left render_target
BuildLeft == bPc \in {"returned", "raised"}

BuildStep == BtCompose \/ BtWrite \/ BtCompile \/ BtCleanup \/ BtReturn

---------------------------------------------------------------------------
(* Specification of the orchestrator: one call of render_target into a     *)
(* directory that may hold files of an earlier build                       *)

AllSuffixes == {"tex", "pdf", "aux", "log", "out"}

InitBuild ==
    /\ dirs = {"outdir"}
    /\ fs \in SUBSET {File("outdir", "cv_output", x) : x \in AllSuffixes}
    /\ compiler \in CompilerOutcomes
    /\ rmFailed = {}
    /\ bPc = "compose" /\ bDir = "outdir" /\ bBase = "cv_output"
    /\ bCompose \in ComposeOutcomes
    /\ bSuffix = 1 /\ bRet = <<"none">>
    /\ IdleEsc /\ IdleFilter /\ IdleComp /\ IdleHandler

NextBuild == BuildStep

SpecBuild == InitBuild /\ [][NextBuild]_vars

\* the source file was written: the attempt reached the compile step
ReachedCompile == bCompose = "ok" /\ bPc \notin {"compose", "write"}
ByproductsLeft == {x \in Byproducts : Exists(bDir, bBase, x)}

(* C6: after a build attempt that reached the compile step, however the    *)
(* compiler invocation ended, no byproduct file (.aux, .log, .out) exists  *)
(* when control leaves render_target (deletions succeeding).               *)
C6_NoByproductsRemain ==
    BuildLeft /\ ReachedCompile /\ rmFailed = {} => ByproductsLeft = {}

(* C7 as stated: with the compiler absent or exiting non-zero,             *)
(* render_target does not raise once the source is written and returns     *)
(* the PDF's path if and only if the PDF exists, else a sentinel.          *)
C7_ReturnTellsOutcome ==
    ReachedCompile /\ compiler \in {"absent", "exit_nonzero"} =>
        /\ bPc /= "raised"
        /\ bPc = "returned" =>
              bRet = PdfPathIfThere(bDir, bBase, Exists(bDir, bBase, "pdf"))

(* C7 as amended: with the compiler absent or exiting non-zero,            *)
(* render_target does not raise once the source is written and returns     *)
(* the path where the PDF would be, whether or not the file exists.        *)
C7_ReturnsPathEitherWay ==
    ReachedCompile /\ compiler \in {"absent", "exit_nonzero"} =>
        /\ bPc /= "raised"
        /\ bPc = "returned" => bRet = <<"path", bDir, bBase, "pdf">>

\* the compiler exited non-zero leaving no PDF, and the path was returned
C7_Witness ==
    /\ bPc = "returned" /\ compiler = "exit_nonzero"
    /\ ~Exists(bDir, bBase, "pdf")
    /\ bRet = <<"path", bDir, bBase, "pdf">>

---------------------------------------------------------------------------
(* Request service: app.py.  The handlers are coroutines that never yield  *)
(* inside a request, so requests are served one after the other.           *)

\* str(uuid.uuid4()): the n-th request's id differs from the earlier ones
IdNames == <<"r1", "r2", "r3", "r4">>
Ids == {IdNames[i] : i \in 1..MaxRequests}

DocTypes == {"cv", "resume"}
BaseOf(doc_type) == IF doc_type = "cv" THEN "cv_output" ELSE "resume_output"
FilesIn(d) == {f \in fs : f[1] = d}

\* how create_tex ends on a request's content: malformed YAML text fails to
\* parse (ValueError); any content may fail in the template
ComposeOutcomesFor(content) ==
    IF content = "malformed" THEN {"ValueError", "TemplateNotFound"}
    ELSE {"ok", "RuntimeError", "TemplateNotFound"}

Respond(r) == hPc' = "responded" /\ hResp' = r

\* a request arrives when the handler of the one before has returned: its
\* handler starts with fresh locals, and rmFailed notes the failed deletions
\* of this request
Receive(req, pc) ==
    /\ hPc \in {"idle", "responded"}
    /\ hCount' = hCount + 1
    /\ hReq' = req
    /\ hPc' = pc
    /\ hId' = "" /\ hResp' = NoResp
    /\ sPdfPath' = FALSE /\ sBytes' = "None" /\ sPending' = NoResp /\ sWay' = "none"
    /\ bPc' = "idle" /\ bDir' = "" /\ bBase' = "" /\ bCompose' = "ok"
    /\ bSuffix' = 1 /\ bRet' = <<"none">>
    /\ compiler' = "absent" /\ rmFailed' = {}
    /\ UNCHANGED <<dirs, fs>>
    /\ UNCHANGED pureVars

\* workdir = TMP_ROOT / request_id; workdir.mkdir(parents=True, exist_ok=True)
Mkdir(pcTo) ==
    /\ hId' = IdNames[hCount]
    /\ dirs' = dirs \cup {IdNames[hCount]}
    /\ hPc' = pcTo
    /\ UNCHANGED <<fs, compiler, rmFailed, buildVars, hReq, hResp, hCount,
                   sPdfPath, sBytes, sPending, sWay>>
    /\ UNCHANGED pureVars

\* render_target(template, str(workdir / out_tex_name), yaml, target=...):
\* the call; the compiler does to this invocation whatever it does
CallRenderTarget(base, pcTo) ==
    /\ \E o \in ComposeOutcomesFor(hReq.content) : BtCall(hId, base, o)
    /\ compiler' \in CompilerOutcomes
    /\ hPc' = pcTo
    /\ UNCHANGED <<dirs, fs, rmFailed, hReq, hId, hResp, hCount,
                   sPdfPath, sBytes, sPending, sWay>>
    /\ UNCHANGED pureVars

(* POST /render_json_pdf *)

ReceiveRenderJsonPdf ==
    /\ hCount < MaxStreamRequests
    /\ \E dt \in DocTypes \cup {"letter"}, c \in {"wellformed", "undumpable"} :
          Receive(Req("render_json_pdf", dt, c, ""), "s_validate")

\* if doc_type not in ("resume", "cv"): return 400
SValidate ==
    /\ hPc = "s_validate"
    /\ IF hReq.doc_type \notin DocTypes
       THEN Respond(<<400, "invalid_doc_type">>)
       ELSE hPc' = "s_dump" /\ UNCHANGED hResp
    /\ UNCHANGED <<hostVars, buildVars, hReq, hId, hCount, sPdfPath, sBytes, sPending, sWay>>
    /\ UNCHANGED pureVars

\* yaml_str = yaml.safe_dump(...); except Exception: return 400
SDump ==
    /\ hPc = "s_dump"
    /\ IF hReq.content = "undumpable"
       THEN Respond(<<400, "yaml_conversion_failed">>)
       ELSE hPc' = "s_mkdir" /\ UNCHANGED hResp
    /\ UNCHANGED <<hostVars, buildVars, hReq, hId, hCount, sPdfPath, sBytes, sPending, sWay>>
    /\ UNCHANGED pureVars

SMkdir == hPc = "s_mkdir" /\ Mkdir("s_call")

SCall == hPc = "s_call" /\ CallRenderTarget(BaseOf(hReq.doc_type), "s_wait")

\* a plausible slip: the cleanup follows the try block instead of being its
\* finally clause, so the returns inside the block skip it
AfterTryOnFallThrough(way) ==
    IF way \in {"pdf_read", "read_empty"} THEN "s_clean_pdf" ELSE "s_return"

\* the finally clause: the cleanup runs whichever way the try block is left
AfterTry(way) == "s_clean_pdf"

\* the try block is left in way `way`, with `pending` the response of a
\* return statement inside it
LeaveTry(way, pending) ==
    /\ sWay' = way
    /\ sPending' = pending
    /\ hPc' = AfterTry(way)

\* render_target has returned or raised:
\*   except Exception: return 500 "Rendering failed"
\*   if not generated_pdf_path or not Path(...).exists(): return 500 "No PDF generated"
\*   pdf_path = Path(generated_pdf_path)
SAfterRender ==
    /\ hPc = "s_wait"
    /\ BuildLeft
    /\ IF bPc = "raised"
       THEN LeaveTry("rendering_raised", <<500, "rendering_failed">>) /\ UNCHANGED sPdfPath
       ELSE IF bRet[1] /= "path" \/ ~Exists(hId, BaseOf(hReq.doc_type), "pdf")
       THEN LeaveTry("no_pdf", <<500, "no_pdf_generated">>) /\ UNCHANGED sPdfPath
       ELSE hPc' = "s_read" /\ sPdfPath' = TRUE /\ UNCHANGED <<sWay, sPending>>
    /\ UNCHANGED <<hostVars, buildVars, hReq, hId, hResp, hCount, sBytes>>
    /\ UNCHANGED pureVars

\* with open(pdf_path, "rb") as f: pdf_bytes = f.read()
SRead ==
    /\ hPc = "s_read"
    /\ \/ LeaveTry("reading_raised", <<500, "rendering_failed">>) /\ UNCHANGED sBytes
       \/ LeaveTry("read_empty", NoResp) /\ sBytes' = "empty"
       \/ LeaveTry("pdf_read", NoResp) /\ sBytes' = "bytes"
    /\ UNCHANGED <<hostVars, buildVars, hReq, hId, hResp, hCount, sPdfPath>>
    /\ UNCHANGED pureVars

\* if pdf_path and Path(pdf_path).exists(): Path(pdf_path).unlink()
SCleanPdf ==
    /\ hPc = "s_clean_pdf"
    /\ IF sPdfPath /\ Exists(hId, BaseOf(hReq.doc_type), "pdf")
       THEN Unlink(File(hId, BaseOf(hReq.doc_type), "pdf"), "pdf")
       ELSE UNCHANGED <<fs, rmFailed>>
    /\ hPc' = "s_clean_tex"
    /\ UNCHANGED <<dirs, compiler, buildVars, hReq, hId, hResp, hCount,
                   sPdfPath, sBytes, sPending, sWay>>
    /\ UNCHANGED pureVars

\* if out_tex_path.exists(): out_tex_path.unlink()
SCleanTex ==
    /\ hPc = "s_clean_tex"
    /\ IF Exists(hId, BaseOf(hReq.doc_type), "tex")
       THEN Unlink(File(hId, BaseOf(hReq.doc_type), "tex"), "tex")
       ELSE UNCHANGED <<fs, rmFailed>>
    /\ hPc' = "s_clean_tree"
    /\ UNCHANGED <<dirs, compiler, buildVars, hReq, hId, hResp, hCount,
                   sPdfPath, sBytes, sPending, sWay>>
    /\ UNCHANGED pureVars

\* if workdir.exists(): shutil.rmtree(workdir, ignore_errors=True): the
\* tree is gone, or the removal fails silently part of the way
SCleanTree ==
    /\ hPc = "s_clean_tree"
    /\ IF hId \in dirs
       THEN \/ /\ dirs' = dirs \ {hId}
               /\ fs' = fs \ FilesIn(hId)
               /\ UNCHANGED rmFailed
            \/ /\ \E gone \in SUBSET FilesIn(hId) : fs' = fs \ gone
               /\ rmFailed' = rmFailed \cup {"tree"}
               /\ UNCHANGED dirs
       ELSE UNCHANGED <<dirs, fs, rmFailed>>
    /\ hPc' = "s_return"
    /\ UNCHANGED <<compiler, buildVars, hReq, hId, hResp, hCount,
                   sPdfPath, sBytes, sPending, sWay>>
    /\ UNCHANGED pureVars

\* the pending return of the try block; else
\* if not pdf_bytes: return 500 "Failed to read generated PDF"; else the PDF
SReturn ==
    /\ hPc = "s_return"
    /\ IF sPending /= NoResp THEN Respond(sPending)
       ELSE IF sBytes /= "bytes" THEN Respond(<<500, "failed_to_read">>)
       ELSE Respond(<<200, "pdf">>)
    /\ UNCHANGED <<hostVars, buildVars, hReq, hId, hCount, sPdfPath, sBytes, sPending, sWay>>
    /\ UNCHANGED pureVars

StreamStep ==
    \/ ReceiveRenderJsonPdf \/ SValidate \/ SDump \/ SMkdir \/ SCall
    \/ SAfterRender \/ SRead \/ SCleanPdf \/ SCleanTex \/ SCleanTree \/ SReturn

InitService ==
    /\ IdleHost /\ IdleBuild /\ IdleHandler
    /\ IdleEsc /\ IdleFilter /\ IdleComp

NextStream == StreamStep \/ BuildStep

SpecStream == InitService /\ [][NextStream]_vars

\* the scratch directory of a render_json_pdf request was created and the
\* handler has returned
StreamResponded == hPc = "responded" /\ hReq.op = "render_json_pdf" /\ hId /= ""

\* the response each way of finishing calls for
ExpectedResponse(way) ==
    CASE way = "pdf_read" -> <<200, "pdf">>
      [] way = "read_empty" -> <<500, "failed_to_read">>
      [] way = "no_pdf" -> <<500, "no_pdf_generated">>
      [] way = "rendering_raised" -> <<500, "rendering_failed">>
      [] way = "reading_raised" -> <<500, "rendering_failed">>
      [] OTHER -> <<0, "raised">>

(* C8: once render_json_pdf has created the scratch directory, every way   *)
(* it finishes (PDF returned, no PDF produced, rendering raised, reading   *)
(* raised) ends in the response that way calls for, never in an exception, *)
(* whichever cleanup steps failed; and with the directory tree's removal   *)
(* carried out, the artifact, the source file and the directory are gone   *)
(* when the response is returned.                                          *)
C8_StreamingCleansUp ==
    StreamResponded =>
        /\ hResp = ExpectedResponse(sWay)
        /\ "tree" \notin rmFailed => hId \notin dirs /\ FilesIn(hId) = {}

\* the PDF was returned although deleting it failed, and the tree is gone
C8_Witness ==
    /\ StreamResponded
    /\ hResp = <<200, "pdf">>
    /\ "pdf" \in rmFailed
    /\ hId \notin dirs /\ FilesIn(hId) = {}

---------------------------------------------------------------------------
(* POST /render, POST /render_json, GET /download/{request_id}/{doc_type} *)

ReceiveRender ==
    /\ hCount < MaxRequests
    /\ \E c \in {"wellformed", "malformed"} :
          Receive(Req("render", "", c, ""), "r_mkdir")

ReceiveRenderJson ==
    /\ hCount < MaxRequests
    /\ \E c \in {"wellformed", "undumpable"} :
          Receive(Req("render_json", "", c, ""), "j_dump")

ReceiveDownload ==
    /\ hCount < MaxRequests
    /\ \E id \in Ids \cup {"r0"}, dt \in DocTypes \cup {"letter"} :
          Receive(Req("download", dt, "", id), "d_check")

\* yaml_str = yaml.safe_dump(...); except Exception: return 400;
\* return await render(YamlInput(yaml_content=yaml_str))
JDump ==
    /\ hPc = "j_dump"
    /\ IF hReq.content = "undumpable"
       THEN Respond(<<400, "yaml_conversion_failed">>)
       ELSE hPc' = "r_mkdir" /\ UNCHANGED hResp
    /\ UNCHANGED <<hostVars, buildVars, hReq, hId, hCount, sPdfPath, sBytes, sPending, sWay>>
    /\ UNCHANGED pureVars

RMkdir == hPc = "r_mkdir" /\ Mkdir("r_call_cv")

RCallCv == hPc = "r_call_cv" /\ CallRenderTarget("cv_output", "r_wait_cv")

RCallResume == hPc = "r_call_resume" /\ CallRenderTarget("resume_output", "r_wait_resume")

\* a call of render_target inside render's try block has ended:
\* except Exception: return 500 "Rendering failed"
AfterCall(pcTo) ==
    /\ BuildLeft
    /\ IF bPc = "raised"
       THEN Respond(<<500, "rendering_failed">>)
       ELSE hPc' = pcTo /\ UNCHANGED hResp
    /\ UNCHANGED <<hostVars, buildVars, hReq, hId, hCount, sPdfPath, sBytes, sPending, sWay>>
    /\ UNCHANGED pureVars

RAfterCv == hPc = "r_wait_cv" /\ AfterCall("r_call_resume")

RAfterResume == hPc = "r_wait_resume" /\ AfterCall("r_check")

\* if not cv_pdf.exists() and not resume_pdf.exists(): return 500;
\* return the download links
RCheck ==
    /\ hPc = "r_check"
    /\ IF ~Exists(hId, "cv_output", "pdf") /\ ~Exists(hId, "resume_output", "pdf")
       THEN Respond(<<500, "no_pdfs_generated">>)
       ELSE Respond(<<200, "links">>)
    /\ UNCHANGED <<hostVars, buildVars, hReq, hId, hCount, sPdfPath, sBytes, sPending, sWay>>
    /\ UNCHANGED pureVars

\* download_pdf
DCheck ==
    /\ hPc = "d_check"
    /\ IF hReq.id \notin dirs THEN Respond(<<404, "invalid_request_id">>)
       ELSE IF hReq.doc_type \notin DocTypes THEN Respond(<<400, "invalid_doc_type">>)
       ELSE IF ~Exists(hReq.id, BaseOf(hReq.doc_type), "pdf")
       THEN Respond(<<404, "pdf_not_found">>)
       ELSE Respond(<<200, "file">>)
    /\ UNCHANGED <<hostVars, buildVars, hReq, hId, hCount, sPdfPath, sBytes, sPending, sWay>>
    /\ UNCHANGED pureVars

TwoStepStep ==
    \/ ReceiveRender \/ ReceiveRenderJson \/ ReceiveDownload
    \/ JDump \/ RMkdir \/ RCallCv \/ RAfterCv \/ RCallResume \/ RAfterResume
    \/ RCheck \/ DCheck

NextTwoStep == TwoStepStep \/ BuildStep

SpecTwoStep == InitService /\ [][NextTwoStep]_vars

\* the pipeline of a render request failed: a call of render_target raised
\* on a well-formed document, or no PDF was built
PipelineFailed ==
    /\ hReq.op \in {"render", "render_json"} /\ hReq.content = "wellformed"
    /\ hId /= ""
    /\ \/ bPc = "raised"
       \/ ~Exists(hId, "cv_output", "pdf") /\ ~Exists(hId, "resume_output", "pdf")

(* C9: the status of every error response reflects its category: a        *)
(* malformed document sent to /render yields 400, a download with an       *)
(* unknown request id or an unknown doc type yields 404, a pipeline        *)
(* failure yields 500.                                                     *)
C9_StatusReflectsCategory ==
    hPc = "responded" =>
        /\ hReq.op = "render" /\ hReq.content = "malformed"
             /\ bRet = <<"raise", "ValueError">> => hResp[1] = 400
        /\ hReq.op = "download"
             /\ (hReq.id \notin dirs \/ hReq.doc_type \notin DocTypes) => hResp[1] = 404
        /\ PipelineFailed => hResp[1] = 500

====
